---- MODULE Spec2Model ----
(***************************************************************************)
(* Model of the paginated EIA API download client                          *)
(* (pudl_scrapers/bin/eia_api.py) and of the output directory allocator    *)
(* (pudl_scrapers/helpers.py).                                             *)
(***************************************************************************)
EXTENDS Integers, Sequences, FiniteSets, TLC

VARIABLES
    apiKey,          \* os.environ has API_KEY_EIA
    rootDirs,        \* today's directories under <OUTPUT_DIR>/eia_api (their '#' suffixes)
    client,          \* "none" | "ready" | "failed": the EIAAPI object
    output_dir,      \* self.output_dir (suffix digits), <<>> before construction
    opts,            \* keyword arguments of get_fuel_receipts_costs_aggregates
    param_dict,      \* the request parameter mapping built from opts
    new_params,      \* the deep copy used for requests 2..N
    out_path,        \* path of the aggregate file
    fs,              \* files: path -> [data, open]
    pc,              \* position of the fetch
    requests,        \* X-Params of every HTTP request issued, in order
    first_response,  \* response to the first request
    response,        \* response to the latest later request
    n_requests,      \* computed request count
    i,               \* loop index of _get_all_values
    copied,          \* tokens copied so far by copyfileobj
    log,             \* warnings and log records emitted
    error,           \* exception that ended the client or the fetch, "none" otherwise
    runs,            \* the output directory given to each client constructed, in order
    fetches,         \* the options and the path of each fetch started, in order
    resident         \* the response bodies the locals of _get_all_values refer to

vars == <<apiKey, rootDirs, client, output_dir, opts, param_dict, new_params,
          out_path, fs, pc, requests, first_response, response, n_requests,
          i, copied, log, error, runs, fetches, resident>>

(***************************************************************************)
(* Bounds.                                                                 *)
(***************************************************************************)
MaxTotal == 4      \* largest total a response reports
MaxLength == 3     \* largest page length a caller passes
MaxOffset == 2     \* largest starting offset a caller passes
CopyChunk == 4     \* tokens moved by one read/write of copyfileobj

(***************************************************************************)
(* Python values.                                                          *)
(***************************************************************************)
PyNone == [t |-> "none", n |-> 0, s |-> "", items |-> <<>>]
PyInt(k) == [t |-> "int", n |-> k, s |-> "", items |-> <<>>]
PyStr(x) == [t |-> "str", n |-> 0, s |-> x, items |-> <<>>]
PyList(xs) == [t |-> "list", n |-> 0, s |-> "", items |-> xs]
PyTuple(xs) == [t |-> "tuple", n |-> 0, s |-> "", items |-> xs]
PyDict(ks) == [t |-> "dict", n |-> 0, s |-> "", items |-> ks]
PyObject(x) == [t |-> "object", n |-> 0, s |-> x, items |-> <<>>]

\* bool(v)
Truthy(v) ==
    CASE v.t = "none" -> FALSE
      [] v.t = "int" -> v.n # 0
      [] v.t = "str" -> v.s # ""
      [] v.t \in {"list", "tuple", "dict"} -> v.items # <<>>
      [] OTHER -> TRUE

\* v == 0
EqualsZero(v) == v.t = "int" /\ v.n = 0

\* str(v) for the values used as the start bound
PyStrOf(v) ==
    CASE v.t = "none" -> "None"
      [] v.t = "int" -> ToString(v.n)
      [] OTHER -> v.s

API_VERSION == <<"2", ".", "0", ".", "2">>

\* the largest page length the server accepts ("Max 5000")
ServerMaxLength == 5000

OptionNames == {"frequency", "data", "start", "end", "offset", "length", "facets", "sort"}
exclude_locals == {"self", "out_path", "exclude_locals"}
LocalNames == OptionNames \cup exclude_locals

\* locals() at the comprehension of line 80: data has been rebound by line 77
LocalsAt80(o) ==
    [k \in LocalNames |->
        CASE k = "self" -> PyObject("EIAAPI")
          [] k = "exclude_locals" -> PyObject("set")
          [] k = "data" -> IF Truthy(o["data"]) THEN PyList(o["data"].items) ELSE PyList(<<>>)
          [] OTHER -> o[k]]

\* the filter of line 80; KeepsTruthyOnly is the filter without its "or v == 0"
KeepsTruthyOnly(v) == Truthy(v)
Keeps(v) == Truthy(v) \/ EqualsZero(v)

\* line 80; BuildParamsClamped is a builder that caps the page length at the
\* server's maximum
BuildParamsClamped(o) ==
    LET loc == LocalsAt80(o)
        cap(v) == IF v.t = "int" /\ v.n > ServerMaxLength THEN PyInt(ServerMaxLength) ELSE v
    IN  [k \in {k \in LocalNames : Keeps(loc[k]) /\ k \notin exclude_locals} |->
            IF k = "length" THEN cap(loc[k]) ELSE loc[k]]
BuildParams(o) ==
    LET loc == LocalsAt80(o)
    IN  [k \in {k \in LocalNames : Keeps(loc[k]) /\ k \notin exclude_locals} |-> loc[k]]

(***************************************************************************)
(* str.split and the version check.                                        *)
(***************************************************************************)
RECURSIVE Split(_, _)
\* s.split(sep) on a sequence of characters
Split(s, sep) ==
    IF \A k \in 1..Len(s) : s[k] # sep THEN <<s>>
    ELSE LET p == CHOOSE k \in 1..Len(s) : s[k] = sep /\ \A j \in 1..(k - 1) : s[j] # sep
         IN  <<SubSeq(s, 1, p - 1)>> \o Split(SubSeq(s, p + 1, Len(s)), sep)

\* _check_api_version: the records emitted and the exception raised, if any;
\* CheckMinorFirst is the chain with the minor component tested before the major
CheckMinorFirst(resp_json) ==
    IF ~resp_json.hasVersion
    THEN [log |-> <<"warn:version-unavailable">>, error |-> "UnboundLocalError"]
    ELSE LET e == Split(API_VERSION, ".")
             o == Split(resp_json.apiVersion, ".")
         IN  IF Len(o) < 2 THEN [log |-> <<>>, error |-> "IndexError"]
             ELSE IF e[2] # o[2] THEN [log |-> <<"warn:minor">>, error |-> "none"]
             ELSE IF e[1] # o[1] THEN [log |-> <<"warn:major">>, error |-> "none"]
             ELSE IF Len(o) < 3 THEN [log |-> <<>>, error |-> "IndexError"]
             ELSE IF e[3] # o[3] THEN [log |-> <<"info:patch">>, error |-> "none"]
             ELSE [log |-> <<>>, error |-> "none"]
_check_api_version(resp_json) ==
    IF ~resp_json.hasVersion
    THEN [log |-> <<"warn:version-unavailable">>, error |-> "UnboundLocalError"]
    ELSE LET e == Split(API_VERSION, ".")
             o == Split(resp_json.apiVersion, ".")
         IN  IF e[1] # o[1] THEN [log |-> <<"warn:major">>, error |-> "none"]
             ELSE IF Len(o) < 2 THEN [log |-> <<>>, error |-> "IndexError"]
             ELSE IF e[2] # o[2] THEN [log |-> <<"warn:minor">>, error |-> "none"]
             ELSE IF Len(o) < 3 THEN [log |-> <<>>, error |-> "IndexError"]
             ELSE IF e[3] # o[3] THEN [log |-> <<"info:patch">>, error |-> "none"]
             ELSE [log |-> <<>>, error |-> "none"]

(***************************************************************************)
(* new_output_dir: directories are named <today>#NNN; a name is modelled   *)
(* by the digits of its suffix.                                            *)
(***************************************************************************)
RECURSIVE Digits(_)
Digits(n) == IF n < 10 THEN <<n>> ELSE Digits(n \div 10) \o <<n % 10>>

\* f"{n:03d}"
Format03d(n) ==
    LET d == Digits(n)
    IN  IF Len(d) >= 3 THEN d ELSE [k \in 1..(3 - Len(d)) |-> 0] \o d

RECURSIVE DigitsValue(_)
DigitsValue(d) == IF d = <<>> THEN 0 ELSE 10 * DigitsValue(SubSeq(d, 1, Len(d) - 1)) + d[Len(d)]

\* a < b in the order sorted() gives path names
RECURSIVE LexLess(_, _)
LexLess(a, b) ==
    IF a = <<>> THEN b # <<>>
    ELSE IF b = <<>> THEN FALSE
    ELSE IF a[1] # b[1] THEN a[1] < b[1]
    ELSE LexLess(Tail(a), Tail(b))

new_output_dir(dirs) ==
    IF dirs = {} THEN Format03d(1)
    ELSE LET previous_name == CHOOSE d \in dirs : \A x \in dirs : x = d \/ LexLess(x, d)
             previous_number == DigitsValue(SubSeq(previous_name, Len(previous_name) - 2,
                                                   Len(previous_name)))
         IN  Format03d(previous_number + 1)

(***************************************************************************)
(* Files.  A path is [dir, name]; a file is [data, open] where data is the *)
(* sequence of tokens written so far.                                      *)
(***************************************************************************)
NoPath == [dir |-> <<>>, name |-> ""]

RECURSIVE JoinUnderscore(_)
\* "_".join(xs)
JoinUnderscore(xs) ==
    IF xs = <<>> THEN ""
    ELSE IF Len(xs) = 1 THEN xs[1]
    ELSE xs[1] \o "_" \o JoinUnderscore(Tail(xs))

\* lines 81-82: the path of the aggregate
OutPathOf(o, dir) ==
    IF o["out_path"].t = "none"
    THEN [dir |-> dir,
          name |-> JoinUnderscore(<<o["frequency"].s>> \o LocalsAt80(o)["data"].items
                                  \o <<PyStrOf(o["start"])>>) \o ".json"]
    ELSE [dir |-> <<>>, name |-> o["out_path"].s]

\* filepath.with_suffix(filepath.suffix + ".gz")
GzPathOf(p) == [dir |-> p.dir, name |-> p.name \o ".gz"]

Exists(p) == p \in DOMAIN fs
WriteTo(files, p, toks) == [files EXCEPT ![p].data = @ \o toks]
CloseIn(files, p) == [files EXCEPT ![p].open = FALSE]
\* open(p, "w") and gzip.open(p, "wb") truncate what is there; CreateInAppend
\* is mode "a", which keeps it
CreateInAppend(files, p, toks) ==
    IF p \in DOMAIN files
    THEN [files EXCEPT ![p] = [data |-> @.data \o toks, open |-> TRUE]]
    ELSE (p :> [data |-> toks, open |-> TRUE]) @@ files
CreateIn(files, p, toks) == (p :> [data |-> toks, open |-> TRUE]) @@ files
RemoveFrom(files, p) == [q \in (DOMAIN files) \ {p} |-> files[q]]

(***************************************************************************)
(* gzip: the compressed stream is a header, the run-length encoded tokens  *)
(* and a trailer written when the stream is closed.                        *)
(***************************************************************************)
GzHeader == <<0, "gzip">>
GzTrailer == <<0, "eof">>

\* compress one more token onto a stream
DeflateToken(stream, tok) ==
    IF Len(stream) > 0 /\ stream[Len(stream)][1] > 0 /\ stream[Len(stream)][2] = tok
    THEN [stream EXCEPT ![Len(stream)] = <<@[1] + 1, tok>>]
    ELSE Append(stream, <<1, tok>>)

RECURSIVE DeflateOnto(_, _)
DeflateOnto(stream, toks) ==
    IF toks = <<>> THEN stream
    ELSE DeflateOnto(DeflateToken(stream, toks[1]), Tail(toks))

RECURSIVE Inflate(_)
Inflate(stream) ==
    IF stream = <<>> THEN <<>>
    ELSE [k \in 1..stream[1][1] |-> stream[1][2]] \o Inflate(Tail(stream))

\* gzip.decompress succeeds only on a stream that has its trailer
GunzipOk(data) == Len(data) >= 2 /\ data[1] = GzHeader /\ data[Len(data)] = GzTrailer
Gunzip(data) == Inflate(SubSeq(data, 2, Len(data) - 1))

(***************************************************************************)
(* HTTP responses.                                                         *)
(***************************************************************************)
Ver(a, b, c) == <<a, ".", b, ".", c>>
ObservedVersions ==
    {Ver(a, b, c) : a \in {"2", "3"}, b \in {"0", "1"}, c \in {"2", "5"}}
        \cup {<<"2", ".", "0">>}

\* response.text of the k-th request (k counted from 0)
Body(k, ok) == (IF ok THEN "page" ELSE "error") \o ToString(k)

NoResponse == [ok |-> FALSE, text |-> "", hasVersion |-> FALSE, apiVersion |-> <<>>, total |-> 0]
ErrorResponse(k) == [NoResponse EXCEPT !.text = Body(k, FALSE)]
OkResponses(k) ==
    {[ok |-> TRUE, text |-> Body(k, TRUE), hasVersion |-> TRUE, apiVersion |-> v, total |-> t] :
        v \in ObservedVersions, t \in 0..MaxTotal}
    \cup {[ok |-> TRUE, text |-> Body(k, TRUE), hasVersion |-> FALSE, apiVersion |-> <<>>,
           total |-> t] : t \in 0..MaxTotal}
FirstResponses == OkResponses(0) \cup {ErrorResponse(0)}
LaterResponses(k) ==
    {[ok |-> TRUE, text |-> Body(k, TRUE), hasVersion |-> TRUE, apiVersion |-> v,
      total |-> t] : v \in {API_VERSION, Ver("3", "1", "5")}, t \in 0..MaxTotal}
    \cup {[ok |-> TRUE, text |-> Body(k, TRUE), hasVersion |-> FALSE, apiVersion |-> <<>>,
           total |-> t] : t \in 0..MaxTotal}
    \cup {ErrorResponse(k)}

(***************************************************************************)
(* What the fetch writes and how it pages.                                 *)
(***************************************************************************)
\* line 89
ArrayOpen == <<"[">>
\* line 91
ArrayClose == <<"]">>
\* line 110
FirstPageTokens(r) == <<r.text>>
\* line 118; NextPageNoSeparator is the write without its separator
NextPageNoSeparator(r) == <<r.text>>
NextPageTokens(r) == <<",\n", r.text>>
\* line 115; PageOffsetOffByOne is the product taken one page too far
PageOffsetOffByOne(length, idx) == length * (idx + 1)
PageOffset(length, idx) == length * idx
\* lines 113 and 116: the offset is assigned in the deep copy, the caller's
\* mapping stays as it was; CallerParamsAliased is the assignment made
\* through an alias of the caller's mapping
CallerParamsAliased(caller, copy) == copy
CallerParamsAfterAssign(caller, copy) == caller
\* lines 117-118: a later response is written and nothing about it is
\* reported; LaterPageChecked is a loop that checks the version of every page
LaterPageChecked(r) == _check_api_version(r).log
LaterPageLog(r) == <<>>
\* lines 97 and 117: first_response stays bound for the whole call, response
\* is rebound by every later request; HeldAccumulates is a loop that keeps
\* every response it received
HeldAccumulates(held, first, latest) == held \cup {latest.text}
HeldAfterNext(held, first, latest) == {first.text, latest.text}
\* range(1, n_requests) still has idx; LoopUntilEqual is a loop that ends on
\* equality, LoopInclusive one that takes n_requests itself as an index
LoopUntilEqual(idx, n) == idx # n
LoopInclusive(idx, n) == idx <= n
LoopContinues(idx, n) == idx < n

(***************************************************************************)
(* The calls a program makes.                                              *)
(***************************************************************************)
DefaultOpts ==
    [k \in OptionNames \cup {"out_path"} |->
        CASE k = "frequency" -> PyStr("annual")
          [] k = "data" -> PyTuple(<<"cost-per-btu", "receipts-btu">>)
          [] k = "start" -> PyStr("2001")
          [] k = "offset" -> PyInt(0)
          [] k = "length" -> PyInt(ServerMaxLength)
          [] OTHER -> PyNone]

FetchOptions ==
    {[DefaultOpts EXCEPT !["offset"] = PyInt(off), !["length"] = len, !["out_path"] = op] :
        off \in 0..MaxOffset,
        len \in {PyNone} \cup {PyInt(l) : l \in 0..MaxLength}
                    \cup {PyInt(ServerMaxLength), PyInt(ServerMaxLength + 1)},
        op \in {PyNone, PyObject("custom.json")}}

Init ==
    /\ apiKey \in BOOLEAN
    /\ rootDirs \in {{}, {Format03d(1)}}
    /\ client = "none"
    /\ output_dir = <<>>
    /\ opts = DefaultOpts
    /\ param_dict = <<>>
    /\ new_params = <<>>
    /\ out_path = NoPath
    /\ fs = <<>>
    /\ pc = "idle"
    /\ requests = <<>>
    /\ first_response = NoResponse
    /\ response = NoResponse
    /\ n_requests = 0
    /\ i = 0
    /\ copied = 0
    /\ log = <<>>
    /\ error = "none"
    /\ runs = <<>>
    /\ fetches = <<>>
    /\ resident = {}

\* _generate_api_key_query: the exception it raises, "none" when the key is
\* there; KeyQueryWithDefault is the lookup with a default instead of the raise
KeyQueryWithDefault(present) == "none"
_generate_api_key_query(present) == IF present THEN "none" ELSE "Exception"

\* EIAAPI.__init__
Construct ==
    /\ client = "none"
    /\ output_dir' = new_output_dir(rootDirs)
    /\ LET e == _generate_api_key_query(apiKey)
       IN  IF e = "none"
           THEN client' = "ready" /\ error' = error /\ runs' = Append(runs, output_dir')
           ELSE client' = "failed" /\ error' = e /\ runs' = runs
    /\ UNCHANGED <<apiKey, fetches, resident, rootDirs, opts, param_dict, new_params, out_path, fs, pc,
                   requests, first_response, response, n_requests, i, copied, log>>

\* get_fuel_receipts_costs_aggregates, lines 77-89: build the parameters,
\* choose the path, make its directory, open the file and write "["
\* the locals of the call start unbound, whatever an earlier call left
StartFetch(o) ==
    /\ client = "ready"
    /\ LET p == OutPathOf(o, output_dir)
       IN  /\ opts' = o
           /\ param_dict' = BuildParams(o)
           /\ out_path' = p
           /\ rootDirs' = IF o["out_path"].t = "none" THEN rootDirs \cup {output_dir}
                          ELSE rootDirs
           /\ fs' = CreateIn(fs, p, ArrayOpen)
           /\ fetches' = Append(fetches, [opts |-> o, path |-> p, run |-> Len(runs)])
    /\ pc' = "get_first"
    /\ new_params' = <<>>
    /\ requests' = <<>>
    /\ first_response' = NoResponse
    /\ response' = NoResponse
    /\ n_requests' = 0
    /\ i' = 0
    /\ copied' = 0
    /\ error' = "none"
    /\ resident' = {}
    /\ UNCHANGED <<apiKey, runs, client, output_dir, log>>

CallWith(o) ==
    /\ pc = "idle"
    /\ StartFetch(o)

Call == \E o \in FetchOptions : CallWith(o)

\* an exception leaves the with block of line 87: the file is closed as it is
Abort(e) ==
    /\ pc' = "aborted"
    /\ error' = e
    /\ fs' = CloseIn(fs, out_path)

\* line 97
SendFirstFrom(answers) ==
    /\ pc = "get_first"
    /\ requests' = Append(requests, param_dict)
    /\ \E r \in answers : first_response' = r /\ resident' = {r.text}
    /\ pc' = "process_first"
    /\ UNCHANGED <<apiKey, runs, fetches, rootDirs, client, output_dir, opts, param_dict, new_params,
                   out_path, fs, response, n_requests, i, copied, log, error>>

SendFirst == SendFirstFrom(FirstResponses)

\* -(-n_total_results // length); RoundDown is the plain floor division
RoundDown(total, length) == total \div length
RoundUp(total, length) == -((-total) \div length)

\* lines 114-118: the count computed from the first response is not computed
\* again; CountFromLatestPage is a loop that follows the total of every page
CountFromLatestPage(n, r, length) == IF r.ok THEN RoundUp(r.total, length) ELSE n
CountAfterPage(n, r, length) == n

\* lines 98-113
ProcessFirst ==
    /\ pc = "process_first"
    /\ IF ~first_response.ok
       THEN /\ Abort("HTTPError")
            /\ UNCHANGED <<n_requests, new_params, i, log>>
       ELSE LET v == _check_api_version(first_response)
            IN  IF v.error # "none"
                THEN /\ Abort(v.error)
                     /\ log' = log \o v.log
                     /\ UNCHANGED <<n_requests, new_params, i>>
                ELSE IF "length" \notin DOMAIN param_dict
                THEN /\ Abort("KeyError")
                     /\ log' = log \o v.log
                     /\ UNCHANGED <<n_requests, new_params, i>>
                ELSE IF param_dict["length"].n = 0
                THEN /\ Abort("ZeroDivisionError")
                     /\ log' = log \o v.log
                     /\ UNCHANGED <<n_requests, new_params, i>>
                ELSE /\ n_requests' = RoundUp(first_response.total, param_dict["length"].n)
                     /\ log' = log \o v.log \o <<"info:downloading">>
                     /\ fs' = WriteTo(fs, out_path, FirstPageTokens(first_response))
                     /\ new_params' = param_dict
                     /\ i' = 1
                     /\ pc' = "loop"
                     /\ error' = error
    /\ resident' = IF pc' = "aborted" THEN {} ELSE resident
    /\ UNCHANGED <<apiKey, runs, fetches, rootDirs, client, output_dir, opts, param_dict,
                   out_path, requests, first_response, response, copied>>

\* lines 114-117: one more iteration of the loop issues its request
SendNextFrom(answers) ==
    /\ pc = "loop"
    /\ LoopContinues(i, n_requests)
    /\ LET offset == PageOffset(param_dict["length"].n, i)
           np == ("offset" :> PyInt(offset)) @@ new_params
       IN  /\ new_params' = np
           /\ param_dict' = CallerParamsAfterAssign(param_dict, np)
           /\ requests' = Append(requests, np)
    /\ \E r \in answers :
        /\ response' = r
        /\ resident' = HeldAfterNext(resident, first_response, r)
    /\ pc' = "write_page"
    /\ UNCHANGED <<apiKey, runs, fetches, rootDirs, client, output_dir, opts, out_path, fs,
                   first_response, n_requests, i, copied, log, error>>

SendNext == SendNextFrom(LaterResponses(Len(requests)))

\* line 118
WritePage ==
    /\ pc = "write_page"
    /\ fs' = WriteTo(fs, out_path, NextPageTokens(response))
    /\ log' = log \o LaterPageLog(response)
    /\ n_requests' = CountAfterPage(n_requests, response, param_dict["length"].n)
    /\ i' = i + 1
    /\ pc' = "loop"
    /\ UNCHANGED <<apiKey, runs, fetches, resident, rootDirs, client, output_dir, opts,
                   param_dict, new_params, out_path, requests, first_response, response,
                   copied, error>>

\* the loop is exhausted: line 120, then line 91 and the end of the with block
FinishArray ==
    /\ pc = "loop"
    /\ ~LoopContinues(i, n_requests)
    /\ fs' = CloseIn(WriteTo(fs, out_path, ArrayClose), out_path)
    /\ pc' = "gzip_open"
    /\ resident' = {}
    /\ UNCHANGED <<apiKey, runs, fetches, rootDirs, client, output_dir, opts, param_dict, new_params,
                   out_path, requests, first_response, response, n_requests, i, copied,
                   log, error>>

(***************************************************************************)
(* gzip_file(out_path, delete_uncompressed=True), line 92.                 *)
(***************************************************************************)
\* an exception leaves the with blocks of lines 148-149: the sibling is closed,
\* with or without its trailer, and the exception propagates; GzipFailCleansUp
\* is the failure path with the source removed on the way out
GzipFailCleansUp(files) ==
    /\ pc' = "aborted"
    /\ error' = "OSError"
    /\ fs' = RemoveFrom(CloseIn(files, GzPathOf(out_path)), out_path)
GzipFail(files) ==
    /\ pc' = "aborted"
    /\ error' = "OSError"
    /\ \E trailer \in BOOLEAN :
        fs' = CloseIn(IF trailer THEN WriteTo(files, GzPathOf(out_path), <<GzTrailer>>)
                      ELSE files, GzPathOf(out_path))

\* lines 148-149: open the source and create the sibling
GzipOpen ==
    /\ pc = "gzip_open"
    /\ \/ /\ fs' = CreateIn(fs, GzPathOf(out_path), <<GzHeader>>)
          /\ pc' = "gzip_copy"
          /\ error' = error
       \/ /\ pc' = "aborted"
          /\ error' = "OSError"
          /\ fs' = fs
    /\ copied' = 0
    /\ UNCHANGED <<apiKey, runs, fetches, resident, rootDirs, client, output_dir, opts, param_dict, new_params,
                   out_path, requests, first_response, response, n_requests, i, log>>

\* line 150: copyfileobj moves one buffer
GzipCopy ==
    /\ pc = "gzip_copy"
    /\ copied < Len(fs[out_path].data)
    /\ LET src == fs[out_path].data
           upto == IF copied + CopyChunk < Len(src) THEN copied + CopyChunk ELSE Len(src)
           gz == GzPathOf(out_path)
       IN  \/ /\ fs' = [fs EXCEPT ![gz].data = DeflateOnto(@, SubSeq(src, copied + 1, upto))]
              /\ copied' = upto
              /\ UNCHANGED <<pc, error>>
           \/ /\ GzipFail(fs)
              /\ copied' = copied
    /\ UNCHANGED <<apiKey, runs, fetches, resident, rootDirs, client, output_dir, opts, param_dict, new_params,
                   out_path, requests, first_response, response, n_requests, i, log>>

\* the source is exhausted: both with blocks end, the sibling gets its trailer
GzipClose ==
    /\ pc = "gzip_copy"
    /\ copied >= Len(fs[out_path].data)
    /\ \/ /\ fs' = CloseIn(WriteTo(fs, GzPathOf(out_path), <<GzTrailer>>), GzPathOf(out_path))
          /\ pc' = "unlink"
          /\ error' = error
       \/ /\ pc' = "aborted"
          /\ error' = "OSError"
          /\ fs' = CloseIn(fs, GzPathOf(out_path))
    /\ UNCHANGED <<apiKey, runs, fetches, resident, rootDirs, client, output_dir, opts, param_dict, new_params,
                   out_path, requests, first_response, response, n_requests, i, copied, log>>

\* lines 151-153
Unlink ==
    /\ pc = "unlink"
    /\ fs' = RemoveFrom(fs, out_path)
    /\ pc' = "done"
    /\ UNCHANGED <<apiKey, runs, fetches, resident, rootDirs, client, output_dir, opts, param_dict, new_params,
                   out_path, requests, first_response, response, n_requests, i, copied,
                   log, error>>

Next ==
    \/ Construct
    \/ Call
    \/ SendFirst
    \/ ProcessFirst
    \/ SendNext
    \/ WritePage
    \/ FinishArray
    \/ GzipOpen
    \/ GzipCopy
    \/ GzipClose
    \/ Unlink

Spec == Init /\ [][Next]_vars

(***************************************************************************)
(* The query builder on its own: the same call, over a wide set of option  *)
(* values.                                                                 *)
(***************************************************************************)
BuilderOptions ==
    {[k \in OptionNames \cup {"out_path"} |->
        CASE k = "frequency" -> fr
          [] k = "data" -> da
          [] k = "start" -> st
          [] k = "end" -> en
          [] k = "offset" -> off
          [] k = "length" -> len
          [] k = "facets" -> fa
          [] k = "sort" -> so
          [] OTHER -> op] :
        fr \in {PyStr("annual"), PyStr("")},
        da \in {PyNone, PyTuple(<<>>), PyTuple(<<"cost-per-btu">>)},
        st \in {PyNone, PyStr(""), PyStr("2001")},
        en \in {PyNone, PyStr("2020")},
        off \in {PyNone, PyInt(0), PyInt(MaxOffset)},
        len \in {PyNone, PyInt(0), PyInt(MaxLength)},
        fa \in {PyNone, PyDict(<<>>), PyDict(<<"fueltypeid">>)},
        so \in {PyNone, PyList(<<>>), PyList(<<"period">>)},
        op \in {PyNone, PyObject("custom.json")}}

CallBuilder == \E o \in BuilderOptions : CallWith(o)

NextBuilder ==
    \/ Construct
    \/ CallBuilder

SpecBuilder == Init /\ [][NextBuilder]_vars

(***************************************************************************)
(* Several clients and several fetches in one process, one after another,  *)
(* on one day and under one output root.  The newest client is the one     *)
(* that fetches.                                                           *)
(***************************************************************************)
MaxRuns == 2
MaxFetches == 2
RunsTotal == 2

\* the directories of today that the root holds when the process starts
RunsRoots == {{}, {<<9, 9, 9>>}}

RunsOptions ==
    {[DefaultOpts EXCEPT !["data"] = da, !["length"] = PyInt(1)] :
        da \in {PyNone, PyTuple(<<"cost", "btu">>), PyTuple(<<"cost_btu">>)}}
    \cup {[DefaultOpts EXCEPT !["data"] = PyNone, !["end"] = PyStr("2020"),
                              !["length"] = PyInt(1)]}

\* the server answers every request of these fetches with the expected
\* version; the body names the fetch and the page
FetchBody(f, k) == "fetch" \o ToString(f) \o Body(k, TRUE)
RunsAnswer(f, k, t) ==
    [ok |-> TRUE, text |-> FetchBody(f, k), hasVersion |-> TRUE, apiVersion |-> API_VERSION,
     total |-> t]
RunsFirstResponses == {RunsAnswer(Len(fetches), 0, t) : t \in {1, RunsTotal}}
RunsLaterResponses == {RunsAnswer(Len(fetches), Len(requests), first_response.total)}

InitRuns ==
    /\ apiKey \in BOOLEAN
    /\ rootDirs \in RunsRoots
    /\ client = "none"
    /\ output_dir = <<>>
    /\ opts = DefaultOpts
    /\ param_dict = <<>>
    /\ new_params = <<>>
    /\ out_path = NoPath
    /\ fs = <<>>
    /\ pc = "idle"
    /\ requests = <<>>
    /\ first_response = NoResponse
    /\ response = NoResponse
    /\ n_requests = 0
    /\ i = 0
    /\ copied = 0
    /\ log = <<>>
    /\ error = "none"
    /\ runs = <<>>
    /\ fetches = <<>>
    /\ resident = {}

\* EIAAPI() once more, between fetches: lines 36-45 with the key in place
NewClient ==
    /\ client = "ready"
    /\ pc \in {"idle", "done", "aborted"}
    /\ Len(runs) < MaxRuns
    /\ output_dir' = new_output_dir(rootDirs)
    /\ runs' = Append(runs, output_dir')
    /\ UNCHANGED <<apiKey, rootDirs, client, opts, param_dict, new_params, out_path, fs, pc,
                   requests, first_response, response, n_requests, i, copied, log, error,
                   fetches, resident>>

\* the next call of get_fuel_receipts_costs_aggregates, once the one before
\* has returned or raised
CallRuns ==
    /\ pc \in {"idle", "done", "aborted"}
    /\ Len(fetches) < MaxFetches
    /\ \E o \in RunsOptions : StartFetch(o)

SendFirstRuns == SendFirstFrom(RunsFirstResponses)
SendNextRuns == SendNextFrom(RunsLaterResponses)

NextRuns ==
    \/ Construct
    \/ NewClient
    \/ CallRuns
    \/ SendFirstRuns
    \/ ProcessFirst
    \/ SendNextRuns
    \/ WritePage
    \/ FinishArray
    \/ GzipOpen
    \/ GzipCopy
    \/ GzipClose
    \/ Unlink

SpecRuns == InitRuns /\ [][NextRuns]_vars

(***************************************************************************)
(* Properties.                                                             *)
(***************************************************************************)
GzPath == GzPathOf(out_path)
FirstProcessed == pc \notin {"idle", "get_first", "process_first"}
LoopFinished ==
    \/ pc \in {"gzip_open", "gzip_copy", "unlink", "done"}
    \/ pc = "aborted" /\ error = "OSError"
\* the tokens of the aggregate file
Data == IF Exists(out_path) THEN fs[out_path].data ELSE <<>>
\* the tokens of the aggregate, read back from the sibling once the file is gone
AggregateBytes ==
    IF Exists(out_path) THEN fs[out_path].data
    ELSE IF Exists(GzPath) /\ GunzipOk(fs[GzPath].data) THEN Gunzip(fs[GzPath].data)
    ELSE <<>>
IsBody(tok) == tok \notin {"[", ",\n", "]"}
BodyCount(data) == Cardinality({k \in 1..Len(data) : IsBody(data[k])})
Has(data, tok) == \E k \in 1..Len(data) : data[k] = tok
HasErrorBody(data) == \E k \in 1..Len(data) : \E j \in 0..Len(requests) : data[k] = Body(j, FALSE)
PageLength == IF "length" \in DOMAIN param_dict THEN param_dict["length"].n ELSE 0
OffsetOf(r) == r["offset"].n

\* C1: a non-success status on any page request, the first or a later one,
\* aborts the fetch with an HTTP error: the error body is not appended, no
\* "]" is written and the compression never starts.
C1_HttpErrorAbortsFetch ==
    LET firstFailed == FirstProcessed /\ ~first_response.ok
        laterFailed == Len(requests) >= 2 /\ ~response.ok /\ pc # "write_page"
    IN  (firstFailed \/ laterFailed) =>
            /\ pc = "aborted"
            /\ error = "HTTPError"
            /\ ~HasErrorBody(Data)
            /\ ~Has(Data, "]")
            /\ ~Exists(GzPath)

\* n is the least integer with n * length >= total
IsCeil(n, total, length) == n * length >= total /\ (n - 1) * length < total

\* C2 as stated: for every page length >= 1 and every total >= 0, n_requests is
\* ceil(total / length) and a fetch without a failed request issues exactly
\* n_requests requests and writes exactly n_requests page bodies.
C2_RequestCountIsNRequests ==
    (LoopFinished /\ ~HasErrorBody(AggregateBytes)) =>
        /\ IsCeil(n_requests, first_response.total, PageLength)
        /\ Len(requests) = n_requests
        /\ BodyCount(AggregateBytes) = n_requests

\* C2 amended: n_requests is ceil(total / length); a fetch without a failed
\* request issues n_requests requests when total >= 1 and one request when
\* total = 0, and writes as many page bodies.
C2_RequestCountAtLeastOne ==
    /\ pc \in {"loop", "write_page"} => IsCeil(n_requests, first_response.total, PageLength)
    /\ (LoopFinished /\ ~HasErrorBody(AggregateBytes)) =>
        /\ IsCeil(n_requests, first_response.total, PageLength)
        /\ first_response.total >= 1 => Len(requests) = n_requests
        /\ first_response.total = 0 => n_requests = 0 /\ Len(requests) = 1
        /\ BodyCount(AggregateBytes) = Len(requests)

C2_Witness ==
    /\ pc = "done"
    /\ ~HasErrorBody(AggregateBytes)
    /\ first_response.total = 3
    /\ PageLength = 2
    /\ Len(requests) = 2

\* C3: when the first response reports total = 0 the fetch issues one request
\* only, writes the first response as the only page body between "[" and "]",
\* and goes on to the compression.
C3_ZeroTotalWritesOnePage ==
    (FirstProcessed /\ first_response.ok /\ first_response.total = 0) =>
        /\ Len(requests) = 1
        /\ pc # "write_page"
        /\ pc = "loop" =>
            /\ Data = <<"[", first_response.text>>
            /\ ENABLED FinishArray
            /\ ~ENABLED SendNext
        /\ LoopFinished => AggregateBytes = <<"[", first_response.text, "]">>

C3_Witness ==
    /\ pc = "done"
    /\ first_response.ok
    /\ first_response.total = 0
    /\ Len(requests) = 1
    /\ ~Exists(out_path)
    /\ Exists(GzPath)

\* C4 as stated: whatever the starting offset, the k-th request (k >= 0)
\* carries offset k * length, offsets strictly increase, and a request is
\* issued only after the previous response has been written.
C4_KthOffsetIsKTimesLength ==
    PageLength >= 1 =>
        /\ \A k \in 1..Len(requests) : OffsetOf(requests[k]) = (k - 1) * PageLength
        /\ \A k \in 1..(Len(requests) - 1) : OffsetOf(requests[k]) < OffsetOf(requests[k + 1])
        /\ pc = "loop" => BodyCount(Data) = Len(requests)

\* C4 amended: the first request carries the caller's starting offset; the
\* k-th request for k >= 1 carries offset k * length; offsets strictly
\* increase from request 1 on, and from request 0 on when the starting offset
\* is 0; a request is issued only after the previous response has been written.
C4_LaterOffsetsAreKTimesLength ==
    PageLength >= 1 =>
        /\ Len(requests) >= 1 => OffsetOf(requests[1]) = opts["offset"].n
        /\ \A k \in 2..Len(requests) : OffsetOf(requests[k]) = (k - 1) * PageLength
        /\ \A k \in 2..(Len(requests) - 1) : OffsetOf(requests[k]) < OffsetOf(requests[k + 1])
        /\ opts["offset"].n = 0 =>
            \A k \in 1..(Len(requests) - 1) : OffsetOf(requests[k]) < OffsetOf(requests[k + 1])
        /\ pc \in {"process_first", "write_page"} => BodyCount(Data) = Len(requests) - 1
        /\ pc = "loop" => BodyCount(Data) = Len(requests)

C4_Witness ==
    /\ pc = "loop"
    /\ opts["offset"].n = 2
    /\ PageLength = 1
    /\ Len(requests) = 3
    /\ OffsetOf(requests[1]) = 2
    /\ OffsetOf(requests[2]) = 1
    /\ OffsetOf(requests[3]) = 2

\* C5 as stated: a first response without 'apiVersion' only draws a warning;
\* the fetch goes on, writes the first page and is never ended by the version
\* check.
C5_MissingVersionOnlyWarns ==
    (FirstProcessed /\ first_response.ok /\ ~first_response.hasVersion /\ PageLength >= 1) =>
        /\ Has(log, "warn:version-unavailable")
        /\ error # "UnboundLocalError"
        /\ Has(AggregateBytes, first_response.text)
        /\ LoopFinished => Has(AggregateBytes, "]")

VersionRecords ==
    SelectSeq(log, LAMBDA m : m \in {"warn:major", "warn:minor", "info:patch",
                                     "warn:version-unavailable"})

\* C6: for an observed version a.b.c the check reports the first component
\* that differs from 2.0.2: a major warning, else a minor warning, else a
\* patch log record, else nothing; it reports one outcome only and never ends
\* the fetch.
C6_FirstDifferingComponentDecides ==
    (FirstProcessed /\ first_response.ok /\ first_response.hasVersion
        /\ Len(first_response.apiVersion) = 5) =>
        LET v == first_response.apiVersion
            expected == IF v[1] # "2" THEN <<"warn:major">>
                        ELSE IF v[3] # "0" THEN <<"warn:minor">>
                        ELSE IF v[5] # "2" THEN <<"info:patch">>
                        ELSE <<>>
        IN  /\ VersionRecords = expected
            /\ error \notin {"UnboundLocalError", "IndexError", "HTTPError"}
            /\ PageLength >= 1 => Has(AggregateBytes, first_response.text)

C6_Witness ==
    /\ pc = "done"
    /\ first_response.apiVersion = <<"3", ".", "1", ".", "5">>
    /\ VersionRecords = <<"warn:major">>

\* "[" , then the bodies of requests 0, 1, ... in order with ",\n" between
\* two bodies, then at most one "]" at the very end and after a body
ArrayShape(data) ==
    /\ Len(data) >= 1
    /\ data[1] = "["
    /\ \A m \in 1..(Len(data) - 1) : data[m] # "]"
    /\ LET closed == data[Len(data)] = "]"
           inner == SubSeq(data, 2, IF closed THEN Len(data) - 1 ELSE Len(data))
       IN  /\ inner = <<>> \/ Len(inner) % 2 = 1
           /\ closed => inner # <<>>
           /\ \A m \in 1..Len(inner) :
                IF m % 2 = 1
                THEN inner[m] \in {Body((m - 1) \div 2, TRUE), Body((m - 1) \div 2, FALSE)}
                ELSE inner[m] = ",\n"

AggregateShape ==
    pc # "idle" =>
        /\ ArrayShape(AggregateBytes)
        /\ pc \in {"get_first", "process_first"} => AggregateBytes = <<"[">>
        /\ pc = "loop" => BodyCount(AggregateBytes) = Len(requests)
        /\ pc = "write_page" => BodyCount(AggregateBytes) = Len(requests) - 1
        /\ Has(AggregateBytes, "]") <=> LoopFinished

\* C7 as stated: the file is always "[", the page bodies in fetch order with
\* ",\n" between them and, once and at the end only, "]"; after the loop the
\* array has exactly n_requests elements.
C7_ArrayOfNRequestsPages ==
    /\ AggregateShape
    /\ LoopFinished => BodyCount(AggregateBytes) = n_requests

\* C7 amended: the same shape; after the loop the array has n_requests
\* elements when n_requests >= 1 and one element when n_requests = 0.
C7_ArrayOfAtLeastOnePage ==
    /\ AggregateShape
    /\ LoopFinished =>
        BodyCount(AggregateBytes) = IF n_requests >= 1 THEN n_requests ELSE 1

C7_Witness ==
    /\ pc = "done"
    /\ n_requests = 3
    /\ AggregateBytes = <<"[", "page0", ",\n", "page1", ",\n", "page2", "]">>

GzipStages == {"gzip_open", "gzip_copy", "unlink"}

\* C8: the compression starts only on a closed aggregate; the source is
\* removed only after the sibling is complete and closed; a failed copy leaves
\* the source as it was; after a successful one the source is gone and the
\* sibling decompresses to the source's bytes.
C8_FinalizeKeepsSourceUntilCopied ==
    /\ [](/\ pc \in GzipStages =>
                /\ Exists(out_path)
                /\ ~fs[out_path].open
                /\ Has(Data, "]")
          /\ Exists(GzPath) => LoopFinished
          /\ pc = "aborted" => Exists(out_path)
          /\ (pc # "idle" /\ ~Exists(out_path)) =>
                /\ pc = "done"
                /\ Exists(GzPath)
                /\ ~fs[GzPath].open
                /\ GunzipOk(fs[GzPath].data))
    /\ [][/\ (pc \in GzipStages /\ pc' \in GzipStages \cup {"aborted"}) =>
                /\ (out_path \in DOMAIN fs)'
                /\ fs'[out_path] = fs[out_path]
          /\ (pc = "unlink" /\ pc' = "done") =>
                /\ (out_path \notin DOMAIN fs)'
                /\ GunzipOk(fs'[GzPath].data)
                /\ Gunzip(fs'[GzPath].data) = fs[out_path].data]_vars

C8_Witness ==
    /\ pc = "done"
    /\ ~Exists(out_path)
    /\ Exists(GzPath)
    /\ Len(Gunzip(fs[GzPath].data)) > CopyChunk

\* a value that is there and not empty
NonEmpty(v) ==
    CASE v.t = "none" -> FALSE
      [] v.t = "str" -> v.s # ""
      [] v.t = "int" -> v.n # 0
      [] OTHER -> Len(v.items) > 0

\* C9: the builder keeps an option exactly when its value is non-empty or is
\* the integer zero, keeps the values as given, always keeps an offset of 0,
\* never includes out_path and never rejects its input.
C9_BuilderKeepsNonEmptyOrZero ==
    /\ pc = "get_first" =>
        /\ \A k \in OptionNames :
            k \in DOMAIN param_dict <=> (NonEmpty(opts[k]) \/ opts[k] = PyInt(0))
        /\ \A k \in DOMAIN param_dict :
            /\ k \in OptionNames
            /\ IF k = "data" THEN param_dict[k] = PyList(opts[k].items)
               ELSE param_dict[k] = opts[k]
        /\ opts["offset"] = PyInt(0) => param_dict["offset"] = PyInt(0)
        /\ "out_path" \notin DOMAIN param_dict
        /\ error = "none"
    /\ (client = "ready" /\ pc = "idle") => \A o \in BuilderOptions : ENABLED CallWith(o)

C9_Witness ==
    /\ pc = "get_first"
    /\ opts["offset"] = PyInt(0)
    /\ opts["length"] = PyInt(0)
    /\ opts["facets"] = PyDict(<<>>)
    /\ opts["sort"] = PyNone
    /\ opts["start"] = PyStr("")
    /\ opts["data"] = PyTuple(<<>>)
    /\ DOMAIN param_dict = {"frequency", "end", "offset", "length"}

\* C10: without the API key the construction fails and nothing else happens:
\* no request, no file, no directory, no fetch.
C10_MissingKeyNeverStarts ==
    /\ [](~apiKey =>
            /\ client # "ready"
            /\ pc = "idle"
            /\ requests = <<>>
            /\ fs = <<>>
            /\ client = "failed" => (error = "Exception" /\ output_dir \notin rootDirs))
    /\ [][~apiKey => rootDirs' = rootDirs]_vars

C10_Witness ==
    /\ ~apiKey
    /\ client = "failed"
    /\ error = "Exception"
    /\ requests = <<>>
    /\ fs = <<>>

\* C12 as stated: every request carries a page length of at most the server
\* maximum, whatever length the caller passed.
C12_LengthNeverExceedsServerMax ==
    \A k \in 1..Len(requests) :
        "length" \in DOMAIN requests[k] => requests[k]["length"].n <= ServerMaxLength

\* C12 amended: every request carries the page length the caller passed, as
\* it was passed (and none when the builder dropped it), so it is within the
\* server maximum exactly when the caller's length is.
C12_RequestsCarryCallersLength ==
    \A k \in 1..Len(requests) :
        IF opts["length"].t = "int"
        THEN /\ "length" \in DOMAIN requests[k]
             /\ requests[k]["length"] = opts["length"]
             /\ requests[k]["length"].n <= ServerMaxLength
                    <=> opts["length"].n <= ServerMaxLength
        ELSE "length" \notin DOMAIN requests[k]

C12_Witness ==
    /\ pc = "done"
    /\ opts["length"].n = ServerMaxLength + 1
    /\ requests[1]["length"].n = ServerMaxLength + 1

\* C13: the version check runs once per fetch, on the first response and
\* before the first page body is written; no later response is checked.
C13_VersionCheckedOnceOnFirst ==
    /\ [](/\ Len(VersionRecords) <= 1
          /\ pc \in {"idle", "get_first", "process_first"} => VersionRecords = <<>>
          /\ (FirstProcessed /\ first_response.ok) =>
                VersionRecords = _check_api_version(first_response).log
          /\ error \in {"UnboundLocalError", "IndexError"} => Data = <<"[">>)
    /\ [][pc # "process_first" => VersionRecords' = VersionRecords]_vars

C13_Witness ==
    /\ pc = "done"
    /\ Len(requests) = 3
    /\ first_response.apiVersion = API_VERSION
    /\ response.ok
    /\ response.apiVersion = Ver("3", "1", "5")
    /\ VersionRecords = <<>>

\* C14: the paging never changes the caller's parameter mapping, whether the
\* fetch succeeds or not, and every request after the first equals it in
\* every key but 'offset', which is length * i.
C14_CallerParamsNeverMutated ==
    /\ [](pc # "idle" =>
            /\ param_dict = BuildParams(opts)
            /\ \A k \in 2..Len(requests) :
                /\ DOMAIN requests[k] = DOMAIN param_dict \cup {"offset"}
                /\ \A key \in DOMAIN param_dict \ {"offset"} :
                        requests[k][key] = param_dict[key]
                /\ requests[k]["offset"] = PyInt(PageLength * (k - 1)))
    /\ [][pc # "idle" => param_dict' = param_dict]_vars

C14_Witness ==
    /\ pc = "done"
    /\ Len(requests) = 3
    /\ PageLength = 1
    /\ param_dict["offset"] = PyInt(2)
    /\ requests[3]["offset"] = PyInt(2)
    /\ requests[2]["offset"] = PyInt(1)

\* C15: the total is read from the first response only: the request count is
\* fixed once the first response is processed, the requests issued and the
\* number of elements written follow from the parameters and the first total
\* alone, and no later response ends the fetch.
C15_FirstTotalFixesRequests ==
    /\ [](/\ (pc \in {"loop", "write_page"} \/ LoopFinished) =>
                IsCeil(n_requests, first_response.total, PageLength)
          /\ \A k \in 2..Len(requests) :
                /\ k <= n_requests
                /\ requests[k] = ("offset" :> PyInt((k - 1) * PageLength)) @@ param_dict
          /\ LoopFinished =>
                /\ Len(requests) = IF first_response.total = 0 THEN 1 ELSE n_requests
                /\ BodyCount(AggregateBytes) = Len(requests)
          /\ (pc = "aborted" /\ error # "OSError") => Len(requests) = 1)
    /\ [][(pc \in {"loop", "write_page"}) => (n_requests' = n_requests)]_vars

C15_Witness ==
    /\ pc = "done"
    /\ Len(requests) = 3
    /\ response.ok
    /\ first_response.total = 3
    /\ response.total = 0

\* C16 as stated: at most one page body is held at any time.
C16_AtMostOneBodyResident == Cardinality(resident) <= 1

\* C16 amended: at most two page bodies are held at any time, the first
\* response, kept for the whole call, and the latest later response; the
\* number does not grow with the number of pages.
C16_AtMostTwoBodiesResident ==
    /\ Cardinality(resident) <= 2
    /\ pc = "process_first" => resident = {first_response.text}
    /\ (pc \in {"loop", "write_page"} /\ Len(requests) = 1) => resident = {first_response.text}
    /\ (pc \in {"loop", "write_page"} /\ Len(requests) >= 2) =>
            resident = {first_response.text, response.text}
    /\ pc \notin {"process_first", "loop", "write_page"} => resident = {}

C16_Witness ==
    /\ pc = "write_page"
    /\ Len(requests) = 4
    /\ resident = {Body(0, TRUE), Body(3, TRUE)}

\* C17: from offset 0, with length L >= 1 and total T >= 1, the windows
\* [k * L, (k + 1) * L) of the requests hold every row of [0, T) once, and
\* every request after the first starts below T.
C17_WindowsCoverRowsOnce ==
    (opts["offset"] = PyInt(0) /\ PageLength >= 1 /\ FirstProcessed /\ first_response.ok
        /\ first_response.total >= 1) =>
        /\ \A k \in 2..Len(requests) : OffsetOf(requests[k]) < first_response.total
        /\ LoopFinished =>
            \A row \in 0..(first_response.total - 1) :
                Cardinality({k \in 1..Len(requests) :
                    /\ OffsetOf(requests[k]) <= row
                    /\ row < OffsetOf(requests[k]) + requests[k]["length"].n}) = 1

C17_Witness ==
    /\ pc = "done"
    /\ opts["offset"] = PyInt(0)
    /\ PageLength = 3
    /\ first_response.total = 4
    /\ Len(requests) = 2

\* C19: with length 0 (kept) or None (dropped) the fetch ends with an error
\* after one request and the version check and before any page body: the
\* file holds "[" only and nothing is compressed or removed.
C19_ZeroOrMissingLengthAborts ==
    (FirstProcessed /\ opts["length"] \in {PyNone, PyInt(0)}) =>
        /\ pc = "aborted"
        /\ Len(requests) = 1
        /\ Exists(out_path)
        /\ ~fs[out_path].open
        /\ Data = <<"[">>
        /\ ~Exists(GzPath)
        /\ (first_response.ok /\ first_response.hasVersion
                /\ Len(first_response.apiVersion) = 5) =>
            /\ error = IF opts["length"] = PyNone THEN "KeyError" ELSE "ZeroDivisionError"
            /\ VersionRecords = _check_api_version(first_response).log

C19_Witness ==
    /\ pc = "aborted"
    /\ opts["length"] = PyInt(0)
    /\ error = "ZeroDivisionError"
    /\ VersionRecords = <<"warn:major">>
    /\ Data = <<"[">>

\* the highest number among today's directories
HighestToday(dirs) == CHOOSE n \in {DigitsValue(d) : d \in dirs} : \A d \in dirs : DigitsValue(d) <= n

\* C11: every client is given a fresh output directory: the directory named
\* at construction does not exist yet and is numbered one more than the
\* highest of today's directories (1 when there is none), so no two clients
\* are given the same directory.
C11_EveryRunGetsFreshDir ==
    /\ [](\A a, b \in 1..Len(runs) : a # b => runs[a] # runs[b])
    /\ [][runs' # runs =>
            /\ output_dir' \notin rootDirs
            /\ DigitsValue(output_dir') = (IF rootDirs = {} THEN 1 ELSE HighestToday(rootDirs) + 1)]_vars

\* the options the path is said to follow, and the name line 82 joins
FetchKey(o) == <<o["frequency"], o["data"], o["start"]>>
JoinedName(o) ==
    JoinUnderscore(<<o["frequency"].s>>
                   \o (IF o["data"].t = "none" THEN <<>> ELSE o["data"].items)
                   \o <<PyStrOf(o["start"])>>)
\* two fetches of one client, the earlier first
FetchPairs ==
    {ab \in (1..Len(fetches)) \X (1..Len(fetches)) :
        ab[1] < ab[2] /\ fetches[ab[1]].run = fetches[ab[2]].run}
\* fetches that agree on frequency, data and start write to the same path
SameKeySamePath ==
    \A ab \in FetchPairs :
        FetchKey(fetches[ab[1]].opts) = FetchKey(fetches[ab[2]].opts)
            => fetches[ab[1]].path = fetches[ab[2]].path
\* the n pages of fetch f in order, a separator between two pages
PagesOf(f, n) ==
    [m \in 1..(2 * n - 1) |-> IF m % 2 = 1 THEN FetchBody(f, (m - 1) \div 2) ELSE ",\n"]
\* a completed fetch leaves one compressed file at its path, holding the
\* pages of this fetch and nothing of an earlier one
LaterFetchOnly ==
    pc = "done" =>
        /\ Exists(GzPath)
        /\ ~Exists(out_path)
        /\ GunzipOk(fs[GzPath].data)
        /\ Gunzip(fs[GzPath].data) = <<"[">> \o PagesOf(Len(fetches), Len(requests)) \o <<"]">>
        /\ (\A a \in 1..Len(fetches) :
                fetches[a].path.dir = out_path.dir => fetches[a].path = out_path)
            => {p \in DOMAIN fs : p.dir = out_path.dir} = {GzPath}
\* no step touches a file other than the aggregate of the fetch under way
\* and its compressed sibling
OtherOutputUntouched ==
    \A p \in DOMAIN fs :
        p \notin {out_path', GzPathOf(out_path')} => p \in DOMAIN fs' /\ fs'[p] = fs[p]

\* C18 as stated: fetches of one client that agree on frequency, data and
\* start share a path and the later one replaces the earlier one's output;
\* fetches that differ in one of the three write to distinct paths and leave
\* each other's output untouched.
C18_KeyDecidesPath ==
    /\ [](/\ SameKeySamePath
          /\ LaterFetchOnly
          /\ \A ab \in FetchPairs :
                FetchKey(fetches[ab[1]].opts) # FetchKey(fetches[ab[2]].opts)
                    => fetches[ab[1]].path # fetches[ab[2]].path)
    /\ [][OtherOutputUntouched]_vars

\* C18: fetches of one client that agree on frequency, data and start share
\* a path and the later one replaces the earlier one's output; two fetches
\* write to distinct paths exactly when the names joined from frequency, the
\* data items and start differ, and no step touches a file at another path.
C18_JoinedNameDecidesPath ==
    /\ [](/\ SameKeySamePath
          /\ LaterFetchOnly
          /\ \A ab \in FetchPairs :
                (JoinedName(fetches[ab[1]].opts) # JoinedName(fetches[ab[2]].opts))
                    <=> (fetches[ab[1]].path # fetches[ab[2]].path))
    /\ [][OtherOutputUntouched]_vars

\* the second fetch of a client has completed over the two-page output of
\* the first, with the same frequency, data and start and another end
C18_Witness ==
    /\ pc = "done"
    /\ Len(fetches) = 2
    /\ fetches[1].run = fetches[2].run
    /\ FetchKey(fetches[1].opts) = FetchKey(fetches[2].opts)
    /\ fetches[1].opts["end"] # fetches[2].opts["end"]
    /\ fetches[1].path = fetches[2].path
    /\ Len(requests) = 1
    /\ Gunzip(fs[GzPath].data) = <<"[", FetchBody(2, 0), "]">>

====
